---- MODULE Spec2Model ----
(***************************************************************************)
(* PrometheusMetrics (prometheus/src/lib.rs): the exposer that renders the *)
(* validator's state as a metrics document, its one-shot identity loader   *)
(* thread, and the host views (fork tree, commitment cache) it reads.      *)
(*                                                                         *)
(* Option<T> is modelled as a sequence of length 0 (None) or 1 (Some(x)).  *)
(***************************************************************************)
EXTENDS Integers, Sequences, FiniteSets, TLC

\* ---------------------------------------------------------------- bounds
\* Number of render_prometheus calls, each on its own HTTP handler thread.
NumCalls == 2
\* Highest slot the host validator creates.
MaxSlot == 4
\* Number of public keys that can be tracked as vote accounts.
NumAccounts == 2

Calls == 1..NumCalls
Slots == 0..MaxSlot
Accounts == 1..NumAccounts

None == <<>>
Some(x) == <<x>>
IsSome(o) == Len(o) = 1
Unwrap(o) == o[1]

VARIABLES
    bank_forks,               \* slots whose bank is present in the fork tree
    block_commitment_cache,   \* [finalized, confirmed]: slots the cache reports
    vote_accounts,            \* PrometheusMetrics.vote_accounts
    snapshot_config,          \* PrometheusMetrics.snapshot_config : Option
    identity_info_map,        \* value inside the RwLock : Option<IdentityInfoMap>
    identity_lock,            \* the RwLock itself: [readers, writer]
    loader_pc,                \* position of the thread spawned by new()
    loader_map,               \* the map map_vote_identity_to_info is building
    pc,                       \* position of each render_prometheus call
    cache_slots,              \* per call: slots copied out of the commitment cache
    banks_with_comm,          \* per call: Option<BanksWithCommitments>
    identity_map,             \* per call: the clone of the identity slot
    out,                      \* per call: the Vec<u8>, as a sequence of sections
    started,                  \* per call: it began after the loader had ended
    preceded,                 \* per call: the calls that had returned when it began
    host_guards,              \* per call: the host views it holds a read guard of
    poisoned,                 \* the RwLock's poison flag
    spawned,                  \* number of thread::spawn executed
    loads,                    \* number of map_vote_identity_to_info invocations
    writes                    \* number of writes to the identity slot

vars == <<bank_forks, block_commitment_cache, vote_accounts, snapshot_config,
          identity_info_map, identity_lock, loader_pc, loader_map, pc,
          cache_slots, banks_with_comm, identity_map, out, started,
          preceded, host_guards, poisoned, spawned, loads, writes>>

hostVars == <<bank_forks, block_commitment_cache>>
configVars == <<vote_accounts, snapshot_config>>
loaderVars == <<loader_pc, loader_map, spawned, loads>>
slotVars == <<identity_info_map, identity_lock, writes, poisoned>>
callVars == <<pc, cache_slots, banks_with_comm, identity_map, out, started,
              preceded, host_guards>>

\* ------------------------------------------------------------ host views
\* The fork tree: slot 0 is the oldest bank; every third slot is a minority
\* fork that gets no children, the others form the canonical fork.
OnCanonicalFork(s) == s % 3 # 2

Parent(s) == IF s % 3 = 0 THEN s - 2 ELSE s - 1

RECURSIVE Ancestors(_)
Ancestors(s) == IF s <= 0 THEN {} ELSE {Parent(s)} \cup Ancestors(Parent(s))

SetMax(S) == CHOOSE m \in S : \A x \in S : x <= m

\* BankForks::working_bank: the bank with the highest slot.
WorkingSlot(forks) == SetMax(forks)

Unavailable == 0 - 1

\* Variant: a slot that is gone is replaced by the next bank after it.
RECURSIVE ResolveSlotLater(_, _)
ResolveSlotLater(s, forks) ==
    IF s < 0 \/ s > MaxSlot THEN Unavailable
    ELSE IF s \in forks THEN s
    ELSE ResolveSlotLater(s + 1, forks)

\* Lookup of a slot reported by the cache, with the nearest-ancestor fallback.
RECURSIVE ResolveSlot(_, _)
ResolveSlot(s, forks) ==
    IF s < 0 THEN Unavailable
    ELSE IF s \in forks THEN s
    ELSE IF s = 0 THEN Unavailable
    ELSE ResolveSlot(Parent(s), forks)

\* The triple of banks a render call works on.
Banks(f, c, p) == [finalized |-> f, confirmed |-> c, processed |-> p]

\* Variant: a level whose slot is gone falls back to the working bank.
LookupBanksWorkingFallback(slots, forks) ==
    LET f == IF slots.finalized \in forks THEN slots.finalized
             ELSE WorkingSlot(forks)
        c == ResolveSlot(slots.confirmed, forks)
    IN  IF c = Unavailable
        THEN None
        ELSE Some(Banks(f, c, WorkingSlot(forks)))

\* BanksWithCommitments::new, the fork-tree half: the three lookups made
\* under one read lock of the fork tree; None when a level cannot be resolved.
LookupBanks(slots, forks) ==
    LET f == ResolveSlot(slots.finalized, forks)
        c == ResolveSlot(slots.confirmed, forks)
    IN  IF f = Unavailable \/ c = Unavailable
        THEN None
        ELSE Some(Banks(f, c, WorkingSlot(forks)))

\* Calls that hold the read lock of the commitment cache.
CacheReaders == {c \in Calls : pc[c] = "new_forks"}

\* The validator creates the bank of the next slot.
HostAdvance ==
    LET s == WorkingSlot(bank_forks) + 1
    IN  /\ s <= MaxSlot
        /\ Parent(s) \in bank_forks
        /\ bank_forks' = bank_forks \cup {s}
        /\ UNCHANGED <<block_commitment_cache, configVars, loaderVars,
                       slotVars, callVars>>

\* The validator installs a newer commitment cache.
HostCommit ==
    /\ CacheReaders = {}
    /\ \E f \in Slots, c \in Slots :
        /\ OnCanonicalFork(f) /\ OnCanonicalFork(c)
        /\ f <= c
        /\ c \in bank_forks
        /\ f >= block_commitment_cache.finalized
        /\ c >= block_commitment_cache.confirmed
        /\ <<f, c>> # <<block_commitment_cache.finalized,
                        block_commitment_cache.confirmed>>
        /\ block_commitment_cache' = [finalized |-> f, confirmed |-> c]
    /\ UNCHANGED <<bank_forks, configVars, loaderVars, slotVars, callVars>>

\* The validator purges a bank other than the working bank.
HostPrune ==
    /\ \E s \in bank_forks \ {WorkingSlot(bank_forks)} :
        bank_forks' = bank_forks \ {s}
    /\ UNCHANGED <<block_commitment_cache, configVars, loaderVars,
                   slotVars, callVars>>

\* -------------------------------------------------------- identity loader
EmptyMap == [covered |-> {}, info |-> {}]

\* The four states of the loader's life cycle.
LoaderPhase ==
    CASE loader_pc = "spawned" -> "Unstarted"
      [] loader_pc \in {"resolving", "loading", "built", "writing"} -> "Loading"
      [] loader_pc = "installed" -> "Installed"
      [] loader_pc = "abandoned" -> "Abandoned"

\* Variant: the closure takes the write guard first and builds the map under it.
LoaderRunLocked ==
    /\ loader_pc = "spawned"
    /\ identity_lock.readers = {} /\ ~identity_lock.writer
    /\ identity_lock' = [identity_lock EXCEPT !.writer = TRUE]
    /\ loader_pc' = "resolving"
    /\ loads' = loads + 1
    /\ UNCHANGED <<loader_map, spawned, hostVars, configVars, identity_info_map,
                   writes, poisoned, callVars>>

\* The spawned closure starts to run and calls map_vote_identity_to_info.
LoaderRun ==
    /\ loader_pc = "spawned"
    /\ loader_pc' = "resolving"
    /\ loads' = loads + 1
    /\ UNCHANGED <<loader_map, spawned, hostVars, configVars, slotVars, callVars>>

\* Variant: a failed bank lookup is retried from the start.
LoaderObtainBankRetry ==
    /\ loader_pc = "resolving"
    /\ \E ok \in BOOLEAN :
        loader_pc' = IF ok THEN "loading" ELSE "spawned"
    /\ UNCHANGED <<loader_map, spawned, loads, hostVars, configVars, slotVars,
                   callVars>>

\* map_vote_identity_to_info resolves the bank it reads the accounts through,
\* or panics, which ends the thread before it touches the slot. Unwinding
\* drops a write guard the thread holds, which poisons the lock.
LoaderObtainBank ==
    /\ loader_pc = "resolving"
    /\ \E ok \in BOOLEAN :
        /\ loader_pc' = IF ok THEN "loading" ELSE "abandoned"
        /\ poisoned' = (poisoned \/ (~ok /\ identity_lock.writer))
        /\ identity_lock' = IF ok THEN identity_lock
                            ELSE [identity_lock EXCEPT !.writer = FALSE]
    /\ UNCHANGED <<loader_map, spawned, loads, hostVars, configVars,
                   identity_info_map, writes, callVars>>

\* One iteration of map_vote_identity_to_info: the identity account of a vote
\* account is read; an unreadable or info-less account leaves no entry.
LoaderReadAccount ==
    /\ loader_pc = "loading"
    /\ \E a \in vote_accounts \ loader_map.covered, found \in BOOLEAN :
        loader_map' = [covered |-> loader_map.covered \cup {a},
                       info |-> IF found THEN loader_map.info \cup {a}
                                ELSE loader_map.info]
    /\ UNCHANGED <<loader_pc, spawned, loads, hostVars, configVars, slotVars,
                   callVars>>

\* map_vote_identity_to_info returns the finished map.
LoaderReturnMap ==
    /\ loader_pc = "loading"
    /\ loader_map.covered = vote_accounts
    /\ loader_pc' = "built"
    /\ UNCHANGED <<loader_map, spawned, loads, hostVars, configVars, slotVars,
                   callVars>>

\* Variant: the write lock is taken before map_vote_identity_to_info is done.
LoaderAcquireWriteEarly ==
    /\ loader_pc \in {"loading", "built"}
    /\ identity_lock.readers = {}
    /\ ~identity_lock.writer
    /\ identity_lock' = [identity_lock EXCEPT !.writer = TRUE]
    /\ loader_pc' = "writing"
    /\ UNCHANGED <<loader_map, spawned, loads, identity_info_map, writes,
                   hostVars, configVars, callVars,
                   poisoned>>

\* identity_info_map.write().unwrap()
LoaderAcquireWrite ==
    /\ loader_pc = "built"
    /\ identity_lock.readers = {}
    /\ ~identity_lock.writer
    /\ identity_lock' = [identity_lock EXCEPT !.writer = TRUE]
    /\ loader_pc' = "writing"
    /\ UNCHANGED <<loader_map, spawned, loads, identity_info_map, writes,
                   hostVars, configVars, callVars,
                   poisoned>>

\* Variant: the finished map is put into a copy of the slot's value.
LoaderReplaceCopy ==
    /\ loader_pc = "writing"
    /\ identity_lock' = [identity_lock EXCEPT !.writer = FALSE]
    /\ loader_pc' = "installed"
    /\ UNCHANGED <<loader_map, spawned, loads, identity_info_map, writes,
                   hostVars, configVars, callVars,
                   poisoned>>

\* .replace(identity_info_map); the guard is dropped at the end of the statement.
LoaderReplace ==
    /\ loader_pc = "writing"
    /\ identity_info_map' = Some(loader_map)
    /\ writes' = writes + 1
    /\ identity_lock' = [identity_lock EXCEPT !.writer = FALSE]
    /\ loader_pc' = "installed"
    /\ UNCHANGED <<loader_map, spawned, loads, hostVars, configVars, callVars,
                   poisoned>>

\* ------------------------------------------------------ render_prometheus
\* One section of the returned buffer: which writer appended it, the banks it
\* was given, and the lines that depend on its other arguments.
Section(kind, banks, lines) == [kind |-> kind, banks |-> banks, lines |-> lines]

\* write_accounts_metrics: one sample per vote account, with the identity
\* labels exactly when the identity is a key of the map.
AccountLines(accounts, map) == {<<a, a \in map.info>> : a \in accounts}

Kinds(buf) == [i \in 1..Len(buf) |-> buf[i].kind]

HasSection(buf, kind) == \E i \in 1..Len(buf) : buf[i].kind = kind

\* The call enters BanksWithCommitments::new: it read-locks the commitment
\* cache and copies out the finalized and the confirmed slot.
ReadCommitmentCache(c) ==
    /\ pc[c] = "idle"
    /\ cache_slots' = [cache_slots EXCEPT ![c] = Some(block_commitment_cache)]
    /\ started' = [started EXCEPT ![c] = LoaderPhase \in {"Installed", "Abandoned"}]
    /\ preceded' = [preceded EXCEPT ![c] = {d \in Calls : pc[d] = "done"}]
    /\ host_guards' = [host_guards EXCEPT ![c] = {"block_commitment_cache"}]
    /\ pc' = [pc EXCEPT ![c] = "new_forks"]
    /\ UNCHANGED <<banks_with_comm, identity_map, out, hostVars, configVars,
                   loaderVars, slotVars>>

\* It read-locks the fork tree, looks the three banks up and releases both
\* locks. render_prometheus takes the result as a plain value: when no triple
\* can be built the call ends abnormally.
ReadBankForks(c) ==
    /\ pc[c] = "new_forks"
    /\ LET banks == LookupBanks(Unwrap(cache_slots[c]), bank_forks)
       IN  /\ banks_with_comm' = [banks_with_comm EXCEPT ![c] = banks]
           /\ pc' = [pc EXCEPT ![c] = IF IsSome(banks) THEN "bank" ELSE "panicked"]
    /\ host_guards' = [host_guards EXCEPT ![c] = {}]
    /\ UNCHANGED <<cache_slots, identity_map, out, started, hostVars,
                   configVars, loaderVars, slotVars, preceded>>

\* Variant: the node writer is called where the bank writer belongs.
WriteBankMetricsSwapped(c) ==
    /\ pc[c] = "bank"
    /\ out' = [out EXCEPT ![c] = Append(@, Section("node", banks_with_comm[c], {}))]
    /\ pc' = [pc EXCEPT ![c] = "node"]
    /\ UNCHANGED <<cache_slots, banks_with_comm, identity_map, started,
                   hostVars, configVars, loaderVars, slotVars,
                   preceded, host_guards>>

\* bank_metrics::write_bank_metrics(&banks_with_comm, &mut out)
WriteBankMetrics(c) ==
    /\ pc[c] = "bank"
    /\ out' = [out EXCEPT ![c] = Append(@, Section("bank", banks_with_comm[c], {}))]
    /\ pc' = [pc EXCEPT ![c] = "node"]
    /\ UNCHANGED <<cache_slots, banks_with_comm, identity_map, started,
                   hostVars, configVars, loaderVars, slotVars,
                   preceded, host_guards>>

\* Variant: the node writer looks the banks up for itself.
WriteNodeMetricsFresh(c) ==
    /\ pc[c] = "node"
    /\ out' = [out EXCEPT ![c] =
                 Append(@, Section("node",
                           LookupBanks(block_commitment_cache, bank_forks), {}))]
    /\ pc' = [pc EXCEPT ![c] = "id_read"]
    /\ UNCHANGED <<cache_slots, banks_with_comm, identity_map, started,
                   hostVars, configVars, loaderVars, slotVars,
                   preceded, host_guards>>

\* cluster_metrics::write_node_metrics(&banks_with_comm, &cluster_info, &mut out)
WriteNodeMetrics(c) ==
    /\ pc[c] = "node"
    /\ out' = [out EXCEPT ![c] = Append(@, Section("node", banks_with_comm[c], {}))]
    /\ pc' = [pc EXCEPT ![c] = "id_read"]
    /\ UNCHANGED <<cache_slots, banks_with_comm, identity_map, started,
                   hostVars, configVars, loaderVars, slotVars,
                   preceded, host_guards>>

\* Variant: a call that finds the loader gone starts it again.
AcquireIdentityReadRespawn(c) ==
    /\ pc[c] = "id_read"
    /\ ~identity_lock.writer
    /\ identity_lock' = [identity_lock EXCEPT !.readers = @ \cup {c}]
    /\ pc' = [pc EXCEPT ![c] = "id_clone"]
    /\ IF loader_pc = "abandoned"
       THEN /\ loader_pc' = "spawned"
            /\ spawned' = spawned + 1
       ELSE UNCHANGED <<loader_pc, spawned>>
    /\ UNCHANGED <<cache_slots, banks_with_comm, identity_map, out, started,
                   identity_info_map, writes, hostVars, configVars,
                   loader_map, loads,
                   preceded, host_guards, poisoned>>

\* self.identity_info_map.read().unwrap(): read() waits for a writer to
\* finish and returns Err on a poisoned lock, which unwrap() turns into a panic.
AcquireIdentityRead(c) ==
    /\ pc[c] = "id_read"
    /\ ~identity_lock.writer
    /\ identity_lock' = IF poisoned THEN identity_lock
                        ELSE [identity_lock EXCEPT !.readers = @ \cup {c}]
    /\ pc' = [pc EXCEPT ![c] = IF poisoned THEN "panicked" ELSE "id_clone"]
    /\ UNCHANGED <<cache_slots, banks_with_comm, identity_map, out, started,
                   identity_info_map, writes, hostVars, configVars, loaderVars,
                   preceded, host_guards, poisoned>>

\* Variant: the slot is read with take() instead of clone().
CloneIdentityTake(c) ==
    /\ pc[c] = "id_clone"
    /\ identity_map' = [identity_map EXCEPT ![c] = identity_info_map]
    /\ identity_info_map' = None
    /\ identity_lock' = [identity_lock EXCEPT !.readers = @ \ {c}]
    /\ pc' = [pc EXCEPT ![c] = "accounts"]
    /\ UNCHANGED <<cache_slots, banks_with_comm, out, started, writes,
                   hostVars, configVars, loaderVars,
                   preceded, host_guards, poisoned>>

\* Variant: the read guard is bound to a name and lives to the end of the call.
CloneIdentityHold(c) ==
    /\ pc[c] = "id_clone"
    /\ identity_map' = [identity_map EXCEPT ![c] = identity_info_map]
    /\ pc' = [pc EXCEPT ![c] = "accounts"]
    /\ UNCHANGED <<cache_slots, banks_with_comm, out, started, identity_lock,
                   identity_info_map, writes, hostVars, configVars, loaderVars,
                   preceded, host_guards, poisoned>>

\* .clone(); the read guard is dropped at the end of the let statement.
CloneIdentity(c) ==
    /\ pc[c] = "id_clone"
    /\ identity_map' = [identity_map EXCEPT ![c] = identity_info_map]
    /\ identity_lock' = [identity_lock EXCEPT !.readers = @ \ {c}]
    /\ pc' = [pc EXCEPT ![c] = "accounts"]
    /\ UNCHANGED <<cache_slots, banks_with_comm, out, started,
                   identity_info_map, writes, hostVars, configVars, loaderVars,
                   preceded, host_guards, poisoned>>

\* Variant: the per-account writer looks at the slot again instead of using
\* the clone the call took.
WriteAccountsReread(c) ==
    /\ pc[c] = "accounts"
    /\ out' = [out EXCEPT ![c] =
                 IF IsSome(identity_info_map)
                 THEN Append(@, Section("accounts", banks_with_comm[c],
                                AccountLines(vote_accounts, Unwrap(identity_info_map))))
                 ELSE @]
    /\ pc' = [pc EXCEPT ![c] = "snapshot"]
    /\ UNCHANGED <<cache_slots, banks_with_comm, identity_map, started,
                   hostVars, configVars, loaderVars, slotVars,
                   preceded, host_guards>>

\* Variant: the per-account writer runs whether or not the slot held a map.
WriteAccountsUnconditional(c) ==
    /\ pc[c] = "accounts"
    /\ out' = [out EXCEPT ![c] =
                 Append(@, Section("accounts", banks_with_comm[c],
                           AccountLines(vote_accounts,
                                        IF IsSome(identity_map[c])
                                        THEN Unwrap(identity_map[c])
                                        ELSE EmptyMap)))]
    /\ pc' = [pc EXCEPT ![c] = "snapshot"]
    /\ UNCHANGED <<cache_slots, banks_with_comm, identity_map, started,
                   hostVars, configVars, loaderVars, slotVars,
                   preceded, host_guards>>

\* if let Some(identity_info_map) = identity_map { write_accounts_metrics(..) }
WriteAccountsMetrics(c) ==
    /\ pc[c] = "accounts"
    /\ out' = [out EXCEPT ![c] =
                 IF IsSome(identity_map[c])
                 THEN Append(@, Section("accounts", banks_with_comm[c],
                                AccountLines(vote_accounts, Unwrap(identity_map[c]))))
                 ELSE @]
    /\ pc' = [pc EXCEPT ![c] = "snapshot"]
    /\ UNCHANGED <<cache_slots, banks_with_comm, identity_map, started,
                   hostVars, configVars, loaderVars, slotVars,
                   preceded, host_guards>>

\* Variant: the snapshot writer is nested in the branch of the identity map.
WriteSnapshotNested(c) ==
    /\ pc[c] = "snapshot"
    /\ out' = [out EXCEPT ![c] =
                 IF IsSome(snapshot_config) /\ IsSome(identity_map[c])
                 THEN Append(@, Section("snapshot", None, {}))
                 ELSE @]
    /\ pc' = [pc EXCEPT ![c] = "done"]
    /\ UNCHANGED <<cache_slots, banks_with_comm, identity_map, started,
                   hostVars, configVars, loaderVars, slotVars,
                   preceded, host_guards>>

\* Variant: the snapshot configuration is consumed by the call that reports it.
WriteSnapshotMetricsTake(c) ==
    /\ pc[c] = "snapshot"
    /\ out' = [out EXCEPT ![c] =
                 IF IsSome(snapshot_config)
                 THEN Append(@, Section("snapshot", None, {}))
                 ELSE @]
    /\ snapshot_config' = None
    /\ pc' = [pc EXCEPT ![c] = "done"]
    /\ UNCHANGED <<cache_slots, banks_with_comm, identity_map, started,
                   hostVars, vote_accounts, loaderVars, slotVars,
                   preceded, host_guards>>

\* if let Some(snapshot_config) = .. { write_snapshot_metrics(..) }; out
WriteSnapshotMetrics(c) ==
    /\ pc[c] = "snapshot"
    /\ out' = [out EXCEPT ![c] =
                 IF IsSome(snapshot_config)
                 THEN Append(@, Section("snapshot", None, {}))
                 ELSE @]
    /\ pc' = [pc EXCEPT ![c] = "done"]
    /\ UNCHANGED <<cache_slots, banks_with_comm, identity_map, started,
                   hostVars, configVars, loaderVars, slotVars,
                   preceded, host_guards>>

\* --------------------------------------------------------- specification
\* The state when PrometheusMetrics::new returns: the slot holds None and the
\* loader thread has been spawned.
Init ==
    /\ bank_forks = {0}
    /\ block_commitment_cache = [finalized |-> 0, confirmed |-> 0]
    /\ vote_accounts = Accounts
    /\ snapshot_config \in {None, Some("snapshot_config")}
    /\ identity_info_map = None
    /\ identity_lock = [readers |-> {}, writer |-> FALSE]
    /\ loader_pc = "spawned"
    /\ loader_map = EmptyMap
    /\ pc = [c \in Calls |-> "idle"]
    /\ cache_slots = [c \in Calls |-> None]
    /\ banks_with_comm = [c \in Calls |-> None]
    /\ identity_map = [c \in Calls |-> None]
    /\ out = [c \in Calls |-> <<>>]
    /\ started = [c \in Calls |-> FALSE]
    /\ preceded = [c \in Calls |-> {}]
    /\ host_guards = [c \in Calls |-> {}]
    /\ poisoned = FALSE
    /\ spawned = 1
    /\ loads = 0
    /\ writes = 0

Host == HostAdvance \/ HostCommit \/ HostPrune

Loader ==
    \/ LoaderRun
    \/ LoaderObtainBank
    \/ LoaderReadAccount
    \/ LoaderReturnMap
    \/ LoaderAcquireWrite
    \/ LoaderReplace

Render(c) ==
    \/ ReadCommitmentCache(c)
    \/ ReadBankForks(c)
    \/ WriteBankMetrics(c)
    \/ WriteNodeMetrics(c)
    \/ AcquireIdentityRead(c)
    \/ CloneIdentity(c)
    \/ WriteAccountsMetrics(c)
    \/ WriteSnapshotMetrics(c)

Next == Host \/ Loader \/ \E c \in Calls : Render(c)

Spec == Init /\ [][Next]_vars

\* The exposer on its own: the loader thread and the render calls, while the
\* host leaves its views as they are. render_prometheus and the loader never
\* write a host view, and what they do with the identity slot reads none.
NextIdentity == Loader \/ \E c \in Calls : Render(c)

SpecIdentity == Init /\ [][NextIdentity]_vars

\* Threads are scheduled by the operating system: a thread that can take a
\* step is not left waiting for ever.
Fairness == WF_vars(Loader) /\ \A c \in Calls : WF_vars(Render(c))

SpecIdentityFair == SpecIdentity /\ Fairness

\* One render call followed while the validator mutates the fork tree and the
\* commitment cache under it; the triple a call builds depends on nothing else.
FirstCall == CHOOSE c \in Calls : \A d \in Calls : c <= d

NextSnapshot == Host \/ Render(FirstCall)

SpecSnapshot == Init /\ [][NextSnapshot]_vars

\* The same, with the scraping thread scheduled fairly; the validator is under
\* no obligation to move.
SpecSnapshotFair == SpecSnapshot /\ WF_vars(Render(FirstCall))

\* The process once the loader thread has ended, before the first scrape:
\* the thread either panicked and left the slot empty, or installed a map
\* that covers every vote account and holds an entry for some of them.
InitLoaderEnded ==
    /\ bank_forks = {0}
    /\ block_commitment_cache = [finalized |-> 0, confirmed |-> 0]
    /\ vote_accounts = Accounts
    /\ snapshot_config \in {None, Some("snapshot_config")}
    /\ identity_lock = [readers |-> {}, writer |-> FALSE]
    /\ \E ok \in BOOLEAN, info \in SUBSET Accounts :
        /\ loader_pc = IF ok THEN "installed" ELSE "abandoned"
        /\ loader_map = IF ok THEN [covered |-> Accounts, info |-> info]
                        ELSE EmptyMap
        /\ ~ok => info = {}
        /\ identity_info_map = IF ok THEN Some(loader_map) ELSE None
        /\ writes = IF ok THEN 1 ELSE 0
    /\ pc = [c \in Calls |-> "idle"]
    /\ cache_slots = [c \in Calls |-> None]
    /\ banks_with_comm = [c \in Calls |-> None]
    /\ identity_map = [c \in Calls |-> None]
    /\ out = [c \in Calls |-> <<>>]
    /\ started = [c \in Calls |-> FALSE]
    /\ preceded = [c \in Calls |-> {}]
    /\ host_guards = [c \in Calls |-> {}]
    /\ poisoned = FALSE
    /\ spawned = 1
    /\ loads = 1

\* One render call followed after the loader has ended, while the validator
\* mutates its views.
SpecScrape == InitLoaderEnded /\ [][NextSnapshot]_vars

\* ----------------------------------------------------------------- claims
Returned(c) == pc[c] = "done"

\* The call began when the loader had already ended in the given phase (the
\* loader never leaves Installed or Abandoned, see C5).
BegunAfter(c, phase) == started[c] /\ LoaderPhase = phase

\* The per-account writer's place in the call has been passed.
PastAccounts(c) == pc[c] \in {"snapshot", "done"}

\* C1: the per-account section is in a call's buffer exactly when the identity
\* slot was Some at the moment the call read it; a call that read None has the
\* bank and node sections and nothing else before the snapshot section.
C1_AccountsIffSlotPresent ==
    /\ [](\A c \in Calls : PastAccounts(c) =>
            /\ HasSection(out[c], "accounts") <=> IsSome(identity_map[c])
            /\ HasSection(out[c], "bank") /\ HasSection(out[c], "node")
            /\ identity_map[c] = None /\ pc[c] = "snapshot"
                 => Kinds(out[c]) = <<"bank", "node">>)
    /\ [][\A c \in Calls : pc[c] = "id_clone" /\ pc'[c] = "accounts"
            => identity_map'[c] = identity_info_map]_vars

\* A call returned without the section after reading None while another
\* returned with it after reading the installed map.
C1_Witness ==
    \E c \in Calls, d \in Calls :
        /\ Returned(c) /\ identity_map[c] = None
        /\ ~HasSection(out[c], "accounts") /\ HasSection(out[c], "node")
        /\ Returned(d) /\ IsSome(identity_map[d])
        /\ HasSection(out[d], "accounts")

\* C2: the identity slot is None until the one write the loader makes, and
\* from then on holds the same map for ever.
C2_SlotWriteOnce ==
    /\ [](writes <= 1 /\ (writes = 0 <=> identity_info_map = None))
    /\ [][IsSome(identity_info_map) => identity_info_map' = identity_info_map]_vars
    /\ [][identity_info_map' # identity_info_map => loader_pc = "writing"]_vars

\* The slot was written and then read by a call that has returned.
C2_Witness ==
    /\ writes = 1
    /\ \E c \in Calls, d \in Calls :
        /\ Returned(c) /\ identity_map[c] = identity_info_map
        /\ IsSome(identity_info_map)
        /\ Returned(d) /\ identity_map[d] = None

\* C3: the slot, and every copy a call took of it, is None or the map the
\* loader built over the whole vote account set.
C3_NoPartialMap ==
    /\ IsSome(identity_info_map) =>
        /\ Unwrap(identity_info_map).covered = vote_accounts
        /\ Unwrap(identity_info_map) = loader_map
    /\ \A c \in Calls : IsSome(identity_map[c]) =>
        Unwrap(identity_map[c]).covered = vote_accounts

\* One call copied the finished map, which has an entry for one vote account
\* and none for another, while another call copied None.
C3_Witness ==
    \E c \in Calls, d \in Calls :
        /\ IsSome(identity_map[c])
        /\ Unwrap(identity_map[c]).info # {}
        /\ Unwrap(identity_map[c]).info # vote_accounts
        /\ identity_map[d] = None /\ pc[d] = "accounts"

SectionRank(kind) ==
    CASE kind = "bank" -> 1
      [] kind = "node" -> 2
      [] kind = "accounts" -> 3
      [] kind = "snapshot" -> 4
      [] OTHER -> 0

\* C4: at every point of a call its buffer holds sections in the order bank,
\* node, accounts, snapshot, none twice, starting with bank and node; a returned
\* buffer has both.
C4_FixedOrder ==
    \A c \in Calls :
        LET k == Kinds(out[c])
        IN  /\ \A i \in 1..Len(k) : SectionRank(k[i]) > 0
            /\ \A i \in 1..Len(k), j \in 1..Len(k) :
                  i < j => SectionRank(k[i]) < SectionRank(k[j])
            /\ Len(k) >= 1 => k[1] = "bank"
            /\ Len(k) >= 2 => k[2] = "node"
            /\ PastAccounts(c) => Len(k) >= 2

\* A call returned all four sections.
C4_Witness ==
    \E c \in Calls :
        Returned(c) /\ Kinds(out[c]) = <<"bank", "node", "accounts", "snapshot">>

\* C5: the loader moves Unstarted -> Loading -> Installed or Abandoned and in
\* no other way; once Abandoned it stays so, the slot stays None and unlocked,
\* and a call begun after that returns bank and node without accounts.
C5_AbandonedLoader ==
    /\ [][LoaderPhase' # LoaderPhase =>
            <<LoaderPhase, LoaderPhase'>> \in
                {<<"Unstarted", "Loading">>, <<"Loading", "Installed">>,
                 <<"Loading", "Abandoned">>}]_vars
    /\ [](LoaderPhase = "Abandoned" =>
            /\ identity_info_map = None
            /\ ~identity_lock.writer
            /\ writes = 0)
    /\ [](\A c \in Calls : BegunAfter(c, "Abandoned") /\ Returned(c) =>
            /\ HasSection(out[c], "bank") /\ HasSection(out[c], "node")
            /\ ~HasSection(out[c], "accounts"))

\* A call begun after the loader was abandoned has returned.
C5_Witness ==
    \E c \in Calls :
        /\ BegunAfter(c, "Abandoned") /\ Returned(c)
        /\ Kinds(out[c]) = <<"bank", "node">>

\* C6: once the loader has its bank the slot eventually becomes Some, and a
\* call begun after the install returns a buffer with the per-account section.
C6_WarmScrape ==
    /\ (loader_pc = "loading") ~> IsSome(identity_info_map)
    /\ [](\A c \in Calls : BegunAfter(c, "Installed") /\ Returned(c) =>
            HasSection(out[c], "accounts"))

\* A call that overlapped the install returned without the section and a call
\* begun after the install returned with it.
C6_Witness ==
    \E c \in Calls, d \in Calls :
        /\ ~started[c] /\ Returned(c)
        /\ ~HasSection(out[c], "accounts")
        /\ BegunAfter(d, "Installed") /\ Returned(d)
        /\ HasSection(out[d], "accounts")

\* C7: one loader thread is spawned, at construction, and it calls
\* map_vote_identity_to_info once, as soon as it runs; no step of a render call
\* changes either count.
C7_LoaderOnce ==
    /\ spawned = 1
    /\ loads <= 1
    /\ loads = 1 <=> loader_pc # "spawned"

\* Every call has returned after the loader was abandoned, and it ran once.
C7_Witness ==
    /\ \A c \in Calls : Returned(c) /\ identity_map[c] = None
    /\ loader_pc = "abandoned"
    /\ spawned = 1 /\ loads = 1

\* C8: the snapshot section is in a buffer only when snapshot_config is Some,
\* and is in every returned buffer when it is, whatever the call read from the
\* identity slot.
C8_SnapshotIffConfig ==
    \A c \in Calls :
        /\ HasSection(out[c], "snapshot") => IsSome(snapshot_config)
        /\ Returned(c) =>
             (HasSection(out[c], "snapshot") <=> IsSome(snapshot_config))

\* Without a snapshot config a call that read the installed map returned no
\* snapshot section.
C8_Witness ==
    \E c \in Calls :
        /\ Returned(c) /\ snapshot_config = None
        /\ IsSome(identity_map[c])
        /\ Kinds(out[c]) = <<"bank", "node", "accounts">>

\* C9: the banks of every commitment snapshot a call has built satisfy
\* slot(finalized) <= slot(confirmed) <= slot(processed).
C9_SlotsOrdered ==
    \A c \in Calls : IsSome(banks_with_comm[c]) =>
        LET b == Unwrap(banks_with_comm[c])
        IN  b.finalized <= b.confirmed /\ b.confirmed <= b.processed

\* A call built its banks although the finalized slot it copied from the
\* cache was gone from the fork tree at the lookup: the finalized bank is an
\* older one, below the confirmed bank.
C9_Witness ==
    \E c \in Calls :
        /\ IsSome(banks_with_comm[c])
        /\ Unwrap(banks_with_comm[c]).finalized
             < Unwrap(cache_slots[c]).finalized
        /\ Unwrap(banks_with_comm[c]).finalized
             < Unwrap(banks_with_comm[c]).confirmed

\* The call has finished BanksWithCommitments::new without a triple of banks.
StateUnavailable(c) ==
    pc[c] \notin {"idle", "new_forks"} /\ banks_with_comm[c] = None

\* C10: a call that cannot build its commitment snapshot returns a buffer that
\* holds the single line '# error: state unavailable'.
C10_StateUnavailableComment ==
    \A c \in Calls : StateUnavailable(c) =>
        Returned(c) /\ Kinds(out[c]) = <<"# error: state unavailable">>

\* C11: no render call ends abnormally: a call whose state is unavailable,
\* whose identity map is absent or whose writer is degraded still returns.
C11_NoFailedRender ==
    \A c \in Calls : pc[c] # "panicked"

\* C12 as stated: any two calls that have returned against the same host views
\* returned the same buffer.
C12_SameBuffers ==
    \A c \in Calls, d \in Calls :
        Returned(c) /\ Returned(d) => out[c] = out[d]

\* C12, amended: two calls that have returned against the same host views and
\* read the same value from the identity slot returned the same buffer.
C12_SameBuffersSameSlot ==
    \A c \in Calls, d \in Calls :
        Returned(c) /\ Returned(d) /\ identity_map[c] = identity_map[d]
            => out[c] = out[d]

\* A call that began while the loader was at work and a call that began after
\* the first had returned both read the installed map and returned.
C12_Witness ==
    \E c \in Calls, d \in Calls :
        /\ c \in preceded[d] /\ ~started[c]
        /\ Returned(d)
        /\ IsSome(identity_map[c]) /\ identity_map[c] = identity_map[d]
        /\ HasSection(out[d], "accounts")

\* The per-account samples of a buffer, each with its identity labels or not.
AccountSamples(buf) ==
    UNION {buf[i].lines : i \in {j \in 1..Len(buf) : buf[j].kind = "accounts"}}

\* C13: when a call returned the per-account section before another call
\* began, the later call returns the section too, with every sample and label
\* of the earlier one.
C13_AccountsMonotone ==
    \A c \in Calls, d \in Calls :
        d \in preceded[c] /\ Returned(c) /\ HasSection(out[d], "accounts")
            => /\ HasSection(out[c], "accounts")
               /\ AccountSamples(out[d]) \subseteq AccountSamples(out[c])

\* A call returned the per-account section, then another call began and
\* returned it as well.
C13_Witness ==
    \E c \in Calls, d \in Calls :
        /\ d \in preceded[c] /\ Returned(c)
        /\ HasSection(out[d], "accounts") /\ HasSection(out[c], "accounts")
        /\ AccountSamples(out[d]) # {}
        /\ AccountSamples(out[d]) = AccountSamples(out[c])

\* r is the bank of slot s, or of the nearest ancestor of s the fork tree has.
NearestPresent(s, forks, r) ==
    /\ r \in forks
    /\ r \in Ancestors(s) \cup {s}
    /\ \A a \in (Ancestors(s) \cup {s}) \cap forks : a <= r

\* C14: the finalized and the confirmed bank of a commitment snapshot are the
\* banks of the slots the cache reported or, when such a slot is gone from the
\* fork tree at the lookup, of its nearest ancestor still there: a bank of the
\* canonical fork and never of a later slot.
C14_NearestAncestor ==
    /\ [][\A c \in Calls : pc[c] = "new_forks" /\ pc'[c] = "bank" =>
            /\ NearestPresent(Unwrap(cache_slots[c]).finalized, bank_forks,
                              Unwrap(banks_with_comm'[c]).finalized)
            /\ NearestPresent(Unwrap(cache_slots[c]).confirmed, bank_forks,
                              Unwrap(banks_with_comm'[c]).confirmed)]_vars
    /\ [](\A c \in Calls : IsSome(banks_with_comm[c]) =>
            /\ Unwrap(banks_with_comm[c]).finalized
                 <= Unwrap(cache_slots[c]).finalized
            /\ Unwrap(banks_with_comm[c]).confirmed
                 <= Unwrap(cache_slots[c]).confirmed
            /\ OnCanonicalFork(Unwrap(banks_with_comm[c]).finalized)
            /\ OnCanonicalFork(Unwrap(banks_with_comm[c]).confirmed))

\* The finalized slot the call copied was gone at the lookup: the call has the
\* bank of its parent, although the tree has a bank of the minority fork that
\* is nearer in slot number, and an older ancestor as well.
C14_Witness ==
    \E c \in Calls :
        /\ pc[c] = "bank"
        /\ Unwrap(cache_slots[c]).finalized \notin bank_forks
        /\ Unwrap(banks_with_comm[c]).finalized
             = Parent(Unwrap(cache_slots[c]).finalized)
        /\ \E t \in bank_forks :
             /\ ~OnCanonicalFork(t)
             /\ t > Unwrap(banks_with_comm[c]).finalized
             /\ t < Unwrap(cache_slots[c]).finalized
        /\ Ancestors(Unwrap(banks_with_comm[c]).finalized) \cap bank_forks # {}

\* The sections written by the writers that take the commitment snapshot.
BankSections(buf) ==
    {i \in 1..Len(buf) : buf[i].kind \in {"bank", "node", "accounts"}}

\* C15: a call builds one commitment snapshot, before its first writer runs,
\* and never another; the bank, node and per-account sections of its buffer
\* were all written from that triple of banks, whatever the host did meanwhile.
C15_OneSnapshot ==
    /\ [](\A c \in Calls :
            /\ out[c] # <<>> => IsSome(banks_with_comm[c])
            /\ \A i \in BankSections(out[c]) :
                 out[c][i].banks = banks_with_comm[c])
    /\ [][\A c \in Calls : IsSome(banks_with_comm[c])
            => banks_with_comm'[c] = banks_with_comm[c]]_vars

\* A call returned its three bank-driven sections from one triple although the
\* host created a bank and moved the commitment cache on after the triple was
\* built.
C15_Witness ==
    \E c \in Calls :
        /\ Returned(c)
        /\ Cardinality(BankSections(out[c])) = 3
        /\ Unwrap(banks_with_comm[c]).processed < WorkingSlot(bank_forks)
        /\ Unwrap(banks_with_comm[c]).confirmed < block_commitment_cache.confirmed
        /\ \A i \in BankSections(out[c]) : out[c][i].banks = banks_with_comm[c]

\* The positions of a call at which its next step is a metric writer.
WriterPcs == {"bank", "node", "accounts", "snapshot"}

\* C16: a call about to run a metric writer holds no lock: neither read guard
\* of the host views outlives the building of the commitment snapshot, and
\* the read guard of the identity slot is gone once the map has been copied,
\* so neither a host writer nor the loader waits for a writer to finish.
C16_NoLockAcrossWriter ==
    \A c \in Calls :
        pc[c] \in WriterPcs
            => /\ host_guards[c] = {}
               /\ c \notin CacheReaders
               /\ c \notin identity_lock.readers

\* A call is about to run the per-account writer on its copy of the map while
\* another call holds the read guard of the slot.
C16_Witness ==
    \E c \in Calls, d \in Calls :
        /\ pc[c] = "accounts"
        /\ IsSome(identity_map[c])
        /\ identity_lock.readers = {d}
        /\ d # c

\* C17: under fair scheduling a render call that has started eventually
\* returns its buffer, whatever the loader is doing and however many other
\* calls are running.
C17_EveryCallReturns ==
    \A c \in Calls : (pc[c] # "idle") ~> Returned(c)

\* The buffer render_prometheus builds from a triple of banks, a copy of the
\* identity slot and the fields of the exposer.
RenderedFrom(banks, map) ==
    <<Section("bank", banks, {}), Section("node", banks, {})>>
    \o (IF IsSome(map)
        THEN <<Section("accounts", banks, AccountLines(vote_accounts, Unwrap(map)))>>
        ELSE <<>>)
    \o (IF IsSome(snapshot_config) THEN <<Section("snapshot", None, {})>> ELSE <<>>)

\* C18: a step of a render call changes neither the identity slot, the vote
\* account set, the snapshot configuration nor the host views, and nothing
\* that belongs to another call; the buffer a call returns is the one built
\* from the views it read itself, however many calls ran before or beside it.
C18_RenderReadOnly ==
    /\ [][pc' # pc =>
            /\ UNCHANGED <<identity_info_map, writes, vote_accounts,
                           snapshot_config, bank_forks, block_commitment_cache>>
            /\ \A c \in Calls : pc'[c] = pc[c] =>
                 /\ out'[c] = out[c]
                 /\ identity_map'[c] = identity_map[c]
                 /\ banks_with_comm'[c] = banks_with_comm[c]]_vars
    /\ [](\A c \in Calls : Returned(c) =>
            out[c] = RenderedFrom(banks_with_comm[c], identity_map[c]))

\* Every call has returned, one of them after another had, and the slot still
\* holds the map the loader installed.
C18_Witness ==
    /\ \A c \in Calls : Returned(c) /\ identity_map[c] = identity_info_map
    /\ \E c \in Calls : preceded[c] # {}
    /\ IsSome(identity_info_map)
    /\ Unwrap(identity_info_map).info # {}

\* C19: the loader is outside the write guard while it runs
\* map_vote_identity_to_info, the one step that can panic, and a call holds the
\* read guard only for the copy; so the lock of the identity slot is never
\* poisoned and no call fails on its read of the slot, loader panic or not.
C19_NeverPoisoned ==
    /\ ~poisoned
    /\ loader_pc \in {"resolving", "loading", "built"} => ~identity_lock.writer
    /\ identity_lock.writer => loader_pc = "writing"
    /\ identity_lock.readers \subseteq {c \in Calls : pc[c] = "id_clone"}
    /\ \A c \in Calls : pc[c] = "panicked" => banks_with_comm[c] = None

\* The loader panicked while one call held the read guard of the slot, and a
\* call that began after the panic has read the slot all the same.
C19_Witness ==
    \E c \in Calls, d \in Calls :
        /\ BegunAfter(c, "Abandoned")
        /\ pc[c] = "accounts" /\ identity_map[c] = None
        /\ ~started[d] /\ pc[d] = "id_clone"
        /\ d \in identity_lock.readers

====
